---- MODULE Spec2Model ----
(***************************************************************************)
(* Model of the scan pipeline of repopackager: the EEQueue work queue, the *)
(* Package walk, the Repository that drives both and the PackageManager.   *)
(* Every async function is cut at the awaits after which it touches state  *)
(* shared with the rest of its object.  Spec is one Repository scanning a  *)
(* tree, scan after scan; SpecRescan lets the tree change between scans;   *)
(* SpecOverlap lets the scans overlap; SpecPkg is one Package walked       *)
(* repeatedly by its own caller; SpecQueue is the EEQueue under arbitrary  *)
(* calls; SpecMgr is the PackageManager with the Repositories it builds,   *)
(* scanning side by side, and its zip export.                              *)
(***************************************************************************)
EXTENDS Naturals, Sequences, FiniteSets, TLC

\* Bounds of the model.
MaxCands == 2       \* candidate package directories in the repository tree
MaxScans == 2       \* calls of Repository.scan()
MaxFaults == 1      \* filesystem operations that fail
MaxWalks == 3       \* calls of walk() on one Package
MaxOps == 5         \* calls of push() and next() on one EEQueue
MaxItem == 2        \* distinct items pushed to an EEQueue
StackLimit == 3     \* nested calls the runtime's stack holds
MaxRepos == 2       \* calls of PackageManager.addRepository()
MaxMgrScans == 1    \* scans of one Repository started through the PackageManager
MaxExports == 2     \* calls of PackageManager.getRepositoryPackageContents()

\* JavaScript values: an optional value is <<>> (undefined) or <<v>>; a string
\* is a tuple of characters.
None == <<>>
Some(v) == <<v>>

\* Directory entries: a file, or a sub-directory with its own listing.
File(n) == [name |-> n, sub |-> None]
Dir(n, listing) == [name |-> n, sub |-> Some(listing)]

\* The candidate package directories.  name and guid are what the
\* configured extraction rules capture in the metadata file: for each
\* property either no match (None) or the text of the first capture group.
\* files is the listing of the directory, in readdir order.
MetaFiles ==
    { [name |-> Some(<<"A">>), guid |-> Some(<<"1">>),
       files |-> <<File("README.md")>>],
      [name |-> Some(<<"B">>), guid |-> Some(<<"2">>),
       files |-> <<File("README.md"), Dir("lib", <<File("x")>>)>>],
      [name |-> Some(<<"C">>), guid |-> Some(<<" ", "1", " ">>),
       files |-> <<Dir("_resources", <<Dir("img", <<File("i")>>), File("r")>>),
                   File("README.md")>>],
      [name |-> None,          guid |-> Some(<<"3">>),
       files |-> <<File("README.md"), File("a")>>],
      [name |-> Some(<<"D">>), guid |-> Some(<<" ">>),
       files |-> <<Dir("lib", <<File("x")>>), File("README.md")>>] }

\* Extraction-rule mappings, in property order: a rule is a pattern, or a
\* nested group of rules.
Pattern(prop) == [prop |-> prop, kind |-> "pattern"]
Group(prop) == [prop |-> prop, kind |-> "group"]
FullRules == <<Pattern("name"), Pattern("guid")>>
RuleSets ==
    { FullRules,
      <<Pattern("guid")>>,
      <<Pattern("name"), Group("meta"), Pattern("guid")>> }

\* packageDefinition.configParseRules of the Repository.
configParseRules == FullRules

RECURSIVE SeqsUpTo(_, _)
SeqsUpTo(S, n) ==
    IF n = 0 THEN {<<>>}
    ELSE LET shorter == SeqsUpTo(S, n - 1)
         IN shorter \cup {Append(t, x) : t \in {u \in shorter : Len(u) = n - 1}, x \in S}

Trees == SeqsUpTo(MetaFiles, MaxCands)

VARIABLES
    tree,           \* the repository directory: its candidate directories in listing order
    errListeners,   \* number of "error" listeners registered on the Repository
    repo,           \* the Repository's fields: packages, invalidPackages, _hasCompletedScan, lastscan
    walkQueue,      \* the EEQueue: its items and its pending once("emptied") listeners
    heap,           \* the Package objects built so far, by identity
    scans,          \* the activations of scan(): where each one is suspended
    log,            \* the signals the Repository has emitted, in order
    clock,          \* the readings of "new Date" so far
    faults,         \* filesystem operations that have failed so far
    doneIds,        \* history: the index's identifiers at each completion of a scan
    qtrace,         \* history: the calls made on the EEQueue by its own caller
    mgr             \* the PackageManager: its registry, the Repositories built by it, its signals

vars == <<tree, errListeners, repo, walkQueue, heap, scans, log, clock, faults,
          doneIds, qtrace, mgr>>

----------------------------------------------------------------------------
\* String.prototype.trim on a tuple of characters.
RECURSIVE TrimLeft(_)
TrimLeft(s) == IF s # <<>> /\ Head(s) = " " THEN TrimLeft(Tail(s)) ELSE s

RECURSIVE TrimRight(_)
TrimRight(s) ==
    IF s # <<>> /\ s[Len(s)] = " " THEN TrimRight(SubSeq(s, 1, Len(s) - 1)) ELSE s

Trim(s) == TrimRight(TrimLeft(s))

\* JavaScript truthiness of an optional string: defined and not "".
Truthy(o) == o # None /\ o[1] # <<>>

\* Package: get isValid.
isValid_guidOnly(p) == Truthy(p.guid)
isValid(p) == Truthy(p.guid) /\ Truthy(p.name)

\* new Package(repoPath, packagePath): path is the candidate's place in the
\* tree.  on is the set of signals with a listener and owned tells that the
\* listeners are the Repository's; emitted, outcome and hist are history:
\* the signals emitted, how the latest walk ended, and one record per walk.
NewPackage(path) ==
    [path |-> path, rawConfigContents |-> None, name |-> None, guid |-> None,
     items |-> <<>>, hasWalked |-> FALSE, lastWalk |-> 0,
     on |-> {}, owned |-> FALSE,
     emitted |-> <<>>, outcome |-> "pending", hist |-> <<>>]

\* Package._parse from rule i on, at call depth d: a pattern that matches
\* assigns the trimmed capture; a nested group calls _parse with the same
\* rules, which the stack ends with a RangeError; a pattern applied to
\* undefined contents is a TypeError.
RECURSIVE ParseFrom(_, _, _, _)
ParseFrom(p, rules, i, d) ==
    IF i > Len(rules) THEN [p |-> p, threw |-> FALSE]
    ELSE IF rules[i].kind = "group"
    THEN IF d >= StackLimit THEN [p |-> p, threw |-> TRUE]
         ELSE LET r == ParseFrom(p, rules, 1, d + 1)
              IN IF r.threw THEN r ELSE ParseFrom(r.p, rules, i + 1, d)
    ELSE IF p.rawConfigContents = None THEN [p |-> p, threw |-> TRUE]
    ELSE LET capture == p.rawConfigContents[1][rules[i].prop]
             q == IF capture = None THEN p
                  ELSE [p EXCEPT ![rules[i].prop] = Some(Trim(capture[1]))]
         IN ParseFrom(q, rules, i + 1, d)

_parse(p, rules) == ParseFrom(p, rules, 1, 1)

\* Package._search from entry i of a listing on: a sub-directory is searched
\* by a recursive call, which starts by resetting this.items; a file is
\* pushed as its path relative to the package directory.
RECURSIVE SearchFrom(_, _, _, _)
SearchFrom(listing, prefix, i, items) ==
    IF i > Len(listing) THEN items
    ELSE LET e == listing[i]
         IN IF e.sub # None
            THEN SearchFrom(listing, prefix, i + 1,
                            SearchFrom(e.sub[1], Append(prefix, e.name), 1, <<>>))
            ELSE SearchFrom(listing, prefix, i + 1,
                            Append(items, Append(prefix, e.name)))

\* Package._search on the package directory: the listing fails, which is
\* logged, or every entry is visited.
_search(p, ok) ==
    [p EXCEPT !.items = IF ok THEN SearchFrom(tree[p.path].files, <<>>, 1, <<>>)
                        ELSE <<>>]

----------------------------------------------------------------------------
\* A property name that every plain object inherits from Object.prototype,
\* and the inherited member it names (a function, which is no Package).
ProtoKey == <<"c", "o", "n", "s", "t", "r", "u", "c", "t", "o", "r">>
Inherited == 0

\* The lookup table[key] of a plain object: an own property, an inherited
\* one, or undefined.
Lookup(table, key) ==
    IF key \in DOMAIN table THEN Some(table[key])
    ELSE IF key = ProtoKey THEN Some(Inherited)
    ELSE None

\* The lookup this.packages[guid] as a truth value.
HasEntry(packages, key) == Lookup(packages, key) # None

Put(packages, key, p) ==
    [k \in DOMAIN packages \cup {key} |-> IF k = key THEN p ELSE packages[k]]

\* EventEmitter.emit on the Repository for a signal other than "error".
Emit(st, type, p) ==
    [st EXCEPT !.log = Append(@, [type |-> type, err |-> "", pkg |-> p, ctx |-> {}])]

\* EventEmitter.emit("error", ...) on the Repository: with no listener the
\* emitter throws the error.
EmitError(st, err, p, ctx) ==
    [st EXCEPT !.log = Append(@, [type |-> "error", err |-> err, pkg |-> p, ctx |-> ctx]),
               !.threw = (errListeners = 0)]

\* Repository._addPkg.
_addPkg_overwrite(st, p) ==
    LET key == st.heap[p].guid[1]
    IN Emit([st EXCEPT !.repo.packages = Put(@, key, p)], "packageAdded", p)

_addPkg_rawKey(st, p) ==
    LET key == st.heap[p].rawConfigContents[1].guid[1]
    IN IF HasEntry(st.repo.packages, key)
       THEN EmitError([st EXCEPT !.repo.invalidPackages = Append(@, p)],
                      "RepositoryNotUniquePackageError", p, {"repostory", "package"})
       ELSE Emit([st EXCEPT !.repo.packages = Put(@, key, p)], "packageAdded", p)

_addPkg(st, p) ==
    LET key == st.heap[p].guid[1]
    IN IF HasEntry(st.repo.packages, key)
       THEN EmitError([st EXCEPT !.repo.invalidPackages = Append(@, p)],
                      "RepositoryNotUniquePackageError", p, {"repostory", "package"})
       ELSE Emit([st EXCEPT !.repo.packages = Put(@, key, p)], "packageAdded", p)

\* Repository._onPkgCreated.
_onPkgCreated(st, p) == _addPkg(st, p)

\* Repository._onPkgError.
_onPkgError_noRecord(st, err, p) ==
    EmitError(st, err, p, {"package", "repository"})

_onPkgError_unshift(st, err, p) ==
    LET st1 == IF ~isValid(st.heap[p])
               THEN [st EXCEPT !.repo.invalidPackages = <<p>> \o @]
               ELSE st
    IN EmitError(st1, err, p, {"package", "repository"})

_onPkgError(st, err, p) ==
    LET st1 == IF ~isValid(st.heap[p])
               THEN [st EXCEPT !.repo.invalidPackages = Append(@, p)]
               ELSE st
    IN EmitError(st1, err, p, {"package", "repository"})

\* Repository._onWalkQueueEmptied.
_onWalkQueueEmptied_always(st) ==
    LET st1 == Emit(st, "ready", 0)
    IN [st1 EXCEPT !.repo.hasCompletedScan = TRUE,
                   !.repo.lastscan = st.clock + 1,
                   !.clock = @ + 1]

_onWalkQueueEmptied(st) ==
    LET st1 == IF ~st.repo.hasCompletedScan THEN Emit(st, "ready", 0) ELSE st
    IN [st1 EXCEPT !.repo.hasCompletedScan = TRUE,
                   !.repo.lastscan = st.clock + 1,
                   !.clock = @ + 1]

\* The listeners of one "emptied" emission, each once() listener run in turn.
RECURSIVE RunEmptied(_, _)
RunEmptied(st, n) == IF n = 0 THEN st ELSE RunEmptied(_onWalkQueueEmptied(st), n - 1)

\* EventEmitter.emit on a Package: the signal is recorded with the Package
\* it carries; an "error" with no listener is thrown by the emitter.
PkgEmit(st, p, sig) ==
    [st EXCEPT !.heap[p].emitted = Append(@, [sig |-> sig, package |-> p]),
               !.threw = (sig = "error" /\ "error" \notin st.heap[p].on)]

\* The end of Package.walk, after the listing: the outcome signal, its
\* listeners (the Repository's when the Package is owned by it), lastWalk.
walk_stampAlways(st, p) ==
    LET now == [st EXCEPT !.heap[p].lastWalk = st.clock + 1, !.clock = @ + 1]
    IN IF ~isValid(st.heap[p])
       THEN LET st1 == PkgEmit([now EXCEPT !.heap[p].outcome = "missing"], p, "error")
            IN IF st.heap[p].owned
               THEN _onPkgError(st1, "PackageMissingRequirementError", p)
               ELSE st1
       ELSE IF st.heap[p].hasWalked
       THEN PkgEmit([now EXCEPT !.heap[p].outcome = "updated"], p, "updated")
       ELSE LET st1 == PkgEmit([now EXCEPT !.heap[p].hasWalked = TRUE,
                                           !.heap[p].outcome = "created"], p, "created")
            IN IF st.heap[p].owned THEN _onPkgCreated(st1, p) ELSE st1

walk(st, p) ==
    IF ~isValid(st.heap[p])
    THEN LET st1 == PkgEmit([st EXCEPT !.heap[p].outcome = "missing"], p, "error")
         IN IF st.heap[p].owned
            THEN _onPkgError(st1, "PackageMissingRequirementError", p)
            ELSE st1
    ELSE IF st.heap[p].hasWalked
    THEN LET st1 == PkgEmit([st EXCEPT !.heap[p].outcome = "updated"], p, "updated")
         IN [st1 EXCEPT !.heap[p].lastWalk = st.clock + 1, !.clock = @ + 1]
    ELSE LET st1 == PkgEmit([st EXCEPT !.heap[p].hasWalked = TRUE,
                                       !.heap[p].outcome = "created"], p, "created")
             st2 == IF st.heap[p].owned THEN _onPkgCreated(st1, p) ELSE st1
         IN IF st2.threw THEN st2
            ELSE [st2 EXCEPT !.heap[p].lastWalk = st.clock + 1, !.clock = @ + 1]

\* EEQueue.push and EEQueue.next on the items; next reports whether it
\* emitted "emptied".
push(wq, item) == [wq EXCEPT !.queue = Append(@, item)]

\* EEQueue: get length.
length_offByOne(wq) == IF wq.queue = <<>> THEN 0 ELSE Len(wq.queue) - 1
length(wq) == Len(wq.queue)

next_pop(wq) ==
    LET rest == IF wq.queue = <<>> THEN <<>> ELSE SubSeq(wq.queue, 1, Len(wq.queue) - 1)
    IN [item |-> IF wq.queue = <<>> THEN 0 ELSE wq.queue[Len(wq.queue)],
        wq |-> [wq EXCEPT !.queue = rest,
                          !.onceEmptied = IF rest = <<>> THEN 0 ELSE @],
        emptied |-> rest = <<>>]

next(wq) ==
    LET rest == IF wq.queue = <<>> THEN <<>> ELSE Tail(wq.queue)
    IN [item |-> IF wq.queue = <<>> THEN 0 ELSE Head(wq.queue),
        wq |-> [wq EXCEPT !.queue = rest,
                          !.onceEmptied = IF rest = <<>> THEN 0 ELSE @],
        emptied |-> rest = <<>>]

----------------------------------------------------------------------------
St == [repo |-> repo, heap |-> heap, log |-> log, clock |-> clock, threw |-> FALSE]

Commit(st) ==
    /\ repo' = st.repo
    /\ heap' = st.heap
    /\ log' = st.log
    /\ clock' = st.clock

Active(s) == scans[s].pc \notin {"done", "failed"}
Ids(packages) == DOMAIN packages

\* A filesystem operation succeeds, or fails while the fault budget lasts.
Outcomes == {TRUE} \cup (IF faults < MaxFaults THEN {FALSE} ELSE {})

NoRepository ==
    [packages |-> <<>>, invalidPackages |-> <<>>, hasCompletedScan |-> FALSE, lastscan |-> 0]

\* new PackageManager(): no Repository registered, nothing signaled.
\* _zipper is the one archiver the PackageManager creates: the directories
\* whose files were appended to it, whether it was finalized, and the number
\* of exports asked of it.
NoManager ==
    [repos |-> <<>>, objs |-> <<>>, log |-> <<>>, dirs |-> <<>>, last |-> [op |-> "none"],
     zipper |-> [globs |-> <<>>, finalized |-> FALSE, calls |-> 0]]

Init ==
    /\ tree \in Trees
    /\ errListeners \in {0, 1}
    /\ repo = NoRepository
    /\ walkQueue = [queue |-> <<>>, onceEmptied |-> 0]
    /\ heap = <<>>
    /\ scans = <<>>
    /\ log = <<>>
    /\ clock = 0
    /\ faults = 0
    /\ doneIds = <<>>
    /\ qtrace = <<>>
    /\ mgr = NoManager

Scan_listenerLate ==
    /\ Len(scans) < MaxScans
    /\ \A s \in 1..Len(scans) : ~Active(s)
    /\ scans' = Append(scans, [pc |-> "readdir", pos |-> 0, pkg |-> 0, travErr |-> FALSE,
                               pushed |-> {}, travAt |-> {}])
    /\ log' = Append(log, [type |-> "scanning", err |-> "", pkg |-> 0, ctx |-> {}])
    /\ UNCHANGED <<tree, errListeners, repo, walkQueue, heap, clock, faults, doneIds, qtrace, mgr>>

\* Repository.scan up to its first await: "scanning", the once("emptied")
\* listener, and the readdir of the root that _populateWalkQueue starts.
\* The caller awaits a scan before it calls scan() again.  pushed and travAt
\* are history: the entries whose metadata file the scan pushed, and the
\* entries (0 for the root) at which its traversal failed.
Scan ==
    /\ Len(scans) < MaxScans
    /\ \A s \in 1..Len(scans) : ~Active(s)
    /\ scans' = Append(scans, [pc |-> "readdir", pos |-> 0, pkg |-> 0, travErr |-> FALSE,
                               pushed |-> {}, travAt |-> {}])
    /\ walkQueue' = [walkQueue EXCEPT !.onceEmptied = @ + 1]
    /\ log' = Append(log, [type |-> "scanning", err |-> "", pkg |-> 0, ctx |-> {}])
    /\ UNCHANGED <<tree, errListeners, repo, heap, clock, faults, doneIds, qtrace, mgr>>

\* The catch block of _populateWalkQueue for a failure at entry i: the
\* traversal error is signaled; a throw of that emit rejects the call, and
\* when the call is the recursive one the root's catch block signals the
\* error again before the scan is rejected.
PopulateCatch(s, i, after, nested) ==
    LET st1 == EmitError(St, "TraversalError", 0, {"repository"})
        st == IF st1.threw /\ nested
              THEN EmitError(st1, "TraversalError", 0, {"repository"})
              ELSE st1
    IN /\ Commit(st)
       /\ scans' = [scans EXCEPT ![s].pc = IF st.threw THEN "failed" ELSE after.pc,
                                 ![s].pos = after.pos,
                                 ![s].travErr = TRUE,
                                 ![s].travAt = @ \cup {i}]
       /\ faults' = faults + 1
       /\ UNCHANGED walkQueue

AfterEntry(i) ==
    IF i < Len(tree) THEN [pc |-> "entry", pos |-> i + 1] ELSE [pc |-> "process", pos |-> 0]

\* _populateWalkQueue: the readdir of the root directory returns.
PopulateRoot(s) ==
    /\ scans[s].pc = "readdir"
    /\ \E ok \in Outcomes :
          IF ok
          THEN /\ scans' = [scans EXCEPT ![s].pc = AfterEntry(0).pc, ![s].pos = AfterEntry(0).pos]
               /\ UNCHANGED <<repo, heap, log, clock, walkQueue, faults>>
          ELSE PopulateCatch(s, 0, [pc |-> "process", pos |-> 0], FALSE)
    /\ UNCHANGED <<tree, errListeners, doneIds, qtrace, mgr>>

\* _populateWalkQueue on one entry of the root: isDirectory(entry), the
\* recursive call's readdir, isDirectory(metadata file) and the push.  A
\* failed stat of the entry is caught by the root's loop and ends it; a
\* failure inside the entry is caught by the recursive call.
PopulateEntry(s) ==
    /\ scans[s].pc = "entry"
    /\ LET i == scans[s].pos
       IN \E res \in {"push"} \cup (IF faults < MaxFaults
                                    THEN {"statEntry", "readdirEntry", "statFile"} ELSE {}) :
             CASE res = "push" ->
                    /\ walkQueue' = push(walkQueue, i)
                    /\ scans' = [scans EXCEPT ![s].pc = AfterEntry(i).pc,
                                              ![s].pos = AfterEntry(i).pos,
                                              ![s].pushed = @ \cup {i}]
                    /\ UNCHANGED <<repo, heap, log, clock, faults>>
               [] res = "statEntry" ->
                    PopulateCatch(s, i, [pc |-> "process", pos |-> 0], FALSE)
               [] OTHER -> PopulateCatch(s, i, AfterEntry(i), TRUE)
    /\ UNCHANGED <<tree, errListeners, doneIds, qtrace, mgr>>

\* The snapshot taken when scan s completes: the identifiers in the index,
\* and whether the scan's traversal met a filesystem failure.
Complete(s) ==
    doneIds' = Append(doneIds, [ids |-> Ids(repo.packages), travErr |-> scans[s].travErr])

_walkPkgDir_reuse(st, file) ==
    IF \E q \in 1..Len(st.heap) : st.heap[q].path = file
    THEN st
    ELSE [st EXCEPT !.heap = Append(@, [NewPackage(file) EXCEPT !.on = {"error", "created"},
                                                                !.owned = TRUE])]

\* Repository._walkPkgDir up to its await: the Package with the Repository's
\* listeners for "error" and "created".
_walkPkgDir(st, file) ==
    [st EXCEPT !.heap = Append(@, [NewPackage(file) EXCEPT !.on = {"error", "created"},
                                                           !.owned = TRUE])]

ProcessWalkQueue_noAwait(s) ==
    /\ scans[s].pc \in {"process", "walk"}
    /\ IF length(walkQueue) = 0
       THEN /\ scans' = [scans EXCEPT ![s].pc = "done"]
            /\ Complete(s)
            /\ UNCHANGED <<repo, heap, log, clock, walkQueue>>
       ELSE LET n == next(walkQueue)
                st1 == IF n.emptied THEN RunEmptied(St, walkQueue.onceEmptied) ELSE St
                st2 == _walkPkgDir(st1, n.item)
            IN /\ walkQueue' = n.wq
               /\ Commit(st2)
               /\ scans' = [scans EXCEPT ![s].pc = "walk", ![s].pkg = Len(st2.heap)]
               /\ UNCHANGED doneIds
    /\ UNCHANGED <<tree, errListeners, faults, qtrace, mgr>>

\* Repository._processWalkQueue at the head of its loop: the scan resolves
\* on an empty queue; otherwise next() (with the "emptied" listeners), then
\* _walkPkgDir builds the Package and calls its walk.
ProcessWalkQueue(s) ==
    /\ scans[s].pc = "process"
    /\ IF length(walkQueue) = 0
       THEN /\ scans' = [scans EXCEPT ![s].pc = "done"]
            /\ Complete(s)
            /\ UNCHANGED <<repo, heap, log, clock, walkQueue>>
       ELSE LET n == next(walkQueue)
                st1 == IF n.emptied THEN RunEmptied(St, walkQueue.onceEmptied) ELSE St
                st2 == _walkPkgDir(st1, n.item)
            IN /\ walkQueue' = n.wq
               /\ Commit(st2)
               /\ scans' = [scans EXCEPT ![s].pc = "walk", ![s].pkg = Len(st2.heap)]
               /\ UNCHANGED doneIds
    /\ UNCHANGED <<tree, errListeners, faults, qtrace, mgr>>

\* The filesystem outcomes of one walk: all well, or one failure: the stat
\* of doesPathExist (the metadata file is absent or unreachable), the read
\* of the file (attempted while no contents are cached), or the readdir of
\* the package directory.  The stat of a path that is no longer in the tree
\* fails.
WalkOutcomes(p) ==
    IF heap[p].path \notin DOMAIN tree THEN {"stat"}
    ELSE {"ok"} \cup (IF faults < MaxFaults
                      THEN {"stat", "list"}
                           \cup (IF heap[p].rawConfigContents = None THEN {"read"} ELSE {})
                      ELSE {})

\* Package._readConfigFile: the file (never empty here) is read once, unless
\* the stat or the read fails.
_readConfigFile(p, res) ==
    IF p.rawConfigContents = None /\ res \notin {"stat", "read"}
    THEN [p EXCEPT !.rawConfigContents =
                      Some([name |-> tree[p.path].name, guid |-> tree[p.path].guid])]
    ELSE p

\* One call of Package.walk(rules) from its start to the settling of its
\* promise.  A failed stat or read rejects the promise, as does a throw of
\* _parse: nothing in walk catches them.  A failed listing is logged and
\* swallowed.  The walk's record is appended to the Package's history.
Package_walk(st, p, rules, res) ==
    LET pk == st.heap[p]
        Rejected(q) == [st EXCEPT !.heap[p] = [q EXCEPT !.outcome = "rejected"],
                                  !.threw = TRUE]
        parsed == _parse(_readConfigFile(pk, res), rules)
        st1 == IF res \in {"stat", "read"} THEN Rejected(pk)
               ELSE IF parsed.threw THEN Rejected(parsed.p)
               ELSE walk([st EXCEPT !.heap[p] = _search(parsed.p, res = "ok")], p)
        pk1 == st1.heap[p]
    IN [st1 EXCEPT !.heap[p].hist =
           Append(@, [rules |-> rules, io |-> res, end |-> pk1.outcome,
                      signals |-> SubSeq(pk1.emitted, Len(pk.emitted) + 1, Len(pk1.emitted)),
                      rejected |-> st1.threw,
                      valid |-> isValid(pk1),
                      lastWalk |-> pk1.lastWalk, hasWalked |-> pk1.hasWalked])]

\* Package.walk settles within a scan.  Its awaits (the stat of
\* doesPathExist, readFileAsync, the readdir of _search) touch only the
\* Package, so they are taken with the end of walk as one step.  A rejected
\* walk rejects _walkPkgDir, _processWalkQueue and scan.
WalkDone(s) ==
    /\ scans[s].pc = "walk"
    /\ LET p == scans[s].pkg
       IN \E res \in WalkOutcomes(p) :
             LET st == Package_walk(St, p, configParseRules, res)
             IN /\ faults' = IF res = "ok" \/ heap[p].path \notin DOMAIN tree
                              THEN faults ELSE faults + 1
                /\ Commit(st)
                /\ scans' = [scans EXCEPT ![s].pc = IF st.threw THEN "failed" ELSE "process"]
    /\ UNCHANGED <<tree, errListeners, walkQueue, doneIds, qtrace, mgr>>

Next ==
    \/ Scan
    \/ \E s \in 1..Len(scans) : PopulateRoot(s)
    \/ \E s \in 1..Len(scans) : PopulateEntry(s)
    \/ \E s \in 1..Len(scans) : ProcessWalkQueue(s)
    \/ \E s \in 1..Len(scans) : WalkDone(s)

Spec == Init /\ [][Next]_vars

----------------------------------------------------------------------------
\* The repository directory changes between two scans: the candidate
\* directory that is last in listing order disappears, or the metadata file
\* of a candidate is rewritten.  The candidates are the three whose
\* identifiers are "1", "2" and " 1 ", and no filesystem operation fails
\* except the stat of a path that a failed scan left in the queue and that
\* has since disappeared.
RescanMetaFiles == {m \in MetaFiles : m.name \in {Some(<<"A">>), Some(<<"B">>), Some(<<"C">>)}}

InitRescan ==
    /\ tree \in SeqsUpTo(RescanMetaFiles, MaxCands)
    /\ errListeners \in {0, 1}
    /\ repo = NoRepository
    /\ walkQueue = [queue |-> <<>>, onceEmptied |-> 0]
    /\ heap = <<>>
    /\ scans = <<>>
    /\ log = <<>>
    /\ clock = 0
    /\ faults = MaxFaults
    /\ doneIds = <<>>
    /\ qtrace = <<>>
    /\ mgr = NoManager

ChangeTree ==
    /\ scans # <<>>
    /\ Len(scans) < MaxScans
    /\ \A s \in 1..Len(scans) : ~Active(s)
    /\ \E i \in 1..Len(tree) :
          \/ i = Len(tree) /\ tree' = SubSeq(tree, 1, i - 1)
          \/ \E m \in RescanMetaFiles \ {tree[i]} : tree' = [tree EXCEPT ![i] = m]
    /\ UNCHANGED <<errListeners, repo, walkQueue, heap, scans, log, clock, faults, doneIds,
                   qtrace, mgr>>

NextRescan ==
    \/ Scan
    \/ ChangeTree
    \/ \E s \in 1..Len(scans) : PopulateRoot(s)
    \/ \E s \in 1..Len(scans) : PopulateEntry(s)
    \/ \E s \in 1..Len(scans) : ProcessWalkQueue(s)
    \/ \E s \in 1..Len(scans) : WalkDone(s)

SpecRescan == InitRescan /\ [][NextRescan]_vars

----------------------------------------------------------------------------
\* The caller does not await: scan() is called again while an earlier scan
\* of the Repository is still in progress.  The activations then share the
\* queue, and each has registered its own once("emptied") listener.
ScanOverlapping ==
    /\ Len(scans) < MaxScans
    /\ \E s \in 1..Len(scans) : Active(s)
    /\ scans' = Append(scans, [pc |-> "readdir", pos |-> 0, pkg |-> 0, travErr |-> FALSE,
                               pushed |-> {}, travAt |-> {}])
    /\ walkQueue' = [walkQueue EXCEPT !.onceEmptied = @ + 1]
    /\ log' = Append(log, [type |-> "scanning", err |-> "", pkg |-> 0, ctx |-> {}])
    /\ UNCHANGED <<tree, errListeners, repo, heap, clock, faults, doneIds, qtrace, mgr>>

NextOverlap ==
    \/ Scan
    \/ ScanOverlapping
    \/ \E s \in 1..Len(scans) : PopulateRoot(s)
    \/ \E s \in 1..Len(scans) : PopulateEntry(s)
    \/ \E s \in 1..Len(scans) : ProcessWalkQueue(s)
    \/ \E s \in 1..Len(scans) : WalkDone(s)

SpecOverlap == Init /\ [][NextOverlap]_vars

----------------------------------------------------------------------------
\* One Package built and walked by its own caller, who may listen for its
\* "error" signal and passes a rule mapping to each call of walk.
InitPkg ==
    /\ tree \in {<<m>> : m \in MetaFiles}
    /\ errListeners = 0
    /\ repo = NoRepository
    /\ walkQueue = [queue |-> <<>>, onceEmptied |-> 0]
    /\ heap \in {<<[NewPackage(1) EXCEPT !.on = o]>> : o \in {{}, {"error"}}}
    /\ scans = <<>>
    /\ log = <<>>
    /\ clock = 0
    /\ faults = 0
    /\ doneIds = <<>>
    /\ qtrace = <<>>
    /\ mgr = NoManager

\* The caller awaits a walk before it calls walk again.  A failed listing
\* needs a walk that reaches its listing.
PkgWalk ==
    /\ Len(heap[1].hist) < MaxWalks
    /\ \E rules \in RuleSets, res \in WalkOutcomes(1) :
          /\ res = "list" => ~_parse(_readConfigFile(heap[1], res), rules).threw
          /\ Commit(Package_walk(St, 1, rules, res))
          /\ faults' = IF res = "ok" THEN faults ELSE faults + 1
    /\ UNCHANGED <<tree, errListeners, walkQueue, scans, doneIds, qtrace, mgr>>

NextPkg == PkgWalk

SpecPkg == InitPkg /\ [][NextPkg]_vars

----------------------------------------------------------------------------
\* One EEQueue under the calls of its own caller; qtrace records each call:
\* the items before it, the item pushed or returned (0 is undefined) and
\* whether "emptied" was signaled.
InitQueue ==
    /\ tree = <<>>
    /\ errListeners = 0
    /\ repo = NoRepository
    /\ walkQueue = [queue |-> <<>>, onceEmptied |-> 0]
    /\ heap = <<>>
    /\ scans = <<>>
    /\ log = <<>>
    /\ clock = 0
    /\ faults = 0
    /\ doneIds = <<>>
    /\ qtrace = <<>>
    /\ mgr = NoManager

QueuePush ==
    /\ Len(qtrace) < MaxOps
    /\ \E item \in 1..MaxItem :
          /\ walkQueue' = push(walkQueue, item)
          /\ qtrace' = Append(qtrace, [op |-> "push", before |-> length(walkQueue),
                                       item |-> item, emptied |-> FALSE])
    /\ UNCHANGED <<tree, errListeners, repo, heap, scans, log, clock, faults, doneIds, mgr>>

QueueNext ==
    /\ Len(qtrace) < MaxOps
    /\ LET n == next(walkQueue)
       IN /\ walkQueue' = n.wq
          /\ qtrace' = Append(qtrace, [op |-> "next", before |-> length(walkQueue),
                                       item |-> n.item, emptied |-> n.emptied])
    /\ UNCHANGED <<tree, errListeners, repo, heap, scans, log, clock, faults, doneIds, mgr>>

NextQueue == QueuePush \/ QueueNext

SpecQueue == InitQueue /\ [][NextQueue]_vars

----------------------------------------------------------------------------
\* The PackageManager with the Repositories it builds.  The filesystem is
\* tree, of which mgr.dirs gives each repository directory its slice; a
\* Repository object is a record of its own fields, queue, Packages, scan
\* activations and signals.  errListeners counts the "error" listeners of
\* the PackageManager, to which its listener on each Repository re-emits.
\* No filesystem operation fails here, and a Repository is scanned again
\* only after its previous scan has settled.  Each Repository object
\* carries the count of the timestamps its own Packages have taken: no
\* Package compares its timestamp with one of another Repository.
RepoNames == {"a", "b"}

MgrMetaFiles == {m \in MetaFiles : m.guid = Some(<<"1">>) \/ m.name = None}

\* new Repository(options).
NewRepository(name, dir) ==
    [name |-> name, dir |-> dir, on |-> {}, repo |-> NoRepository,
     walkQueue |-> [queue |-> <<>>, onceEmptied |-> 0],
     heap |-> <<>>, scans |-> <<>>, log |-> <<>>, clock |-> 0]

InitMgr ==
    /\ tree \in SeqsUpTo(MgrMetaFiles, MaxCands)
    /\ errListeners \in {0, 1}
    /\ repo = NoRepository
    /\ walkQueue = [queue |-> <<>>, onceEmptied |-> 0]
    /\ heap = <<>>
    /\ scans = <<>>
    /\ log = <<>>
    /\ clock = 0
    /\ faults = 0
    /\ doneIds = <<>>
    /\ qtrace = <<>>
    /\ \E k \in 0..Len(tree) :
          mgr = [NoManager EXCEPT !.dirs = <<[lo |-> 1, hi |-> k],
                                             [lo |-> k + 1, hi |-> Len(tree)]>>]

\* PackageManager.addRepository: the Repository is stored under its name
\* and listened to for "error", "ready" and "addedPackage".
AddRepository ==
    /\ Len(mgr.objs) < MaxRepos
    /\ \E name \in RepoNames, dir \in 1..Len(mgr.dirs) :
          mgr' = [mgr EXCEPT
                     !.objs = Append(@, [NewRepository(name, dir) EXCEPT
                                            !.on = {"error", "ready", "addedPackage"}]),
                     !.repos = Put(@, name, Len(mgr.objs) + 1),
                     !.last = [op |-> "addRepository"]]
    /\ UNCHANGED <<tree, errListeners, repo, walkQueue, heap, scans, log, clock, faults,
                   doneIds, qtrace>>

\* A repository name that is a property name of Object.prototype.
ProtoName == "constructor"

\* PackageManager.getRepository: this._repos[name] of a plain object.
getRepository(m, name) ==
    IF name \in DOMAIN m.repos THEN Some(m.repos[name])
    ELSE IF name = ProtoName THEN Some(Inherited)
    ELSE None

\* PackageManager.getRepositories and PackageManager._doesRepoExist.
getRepositories(m) == {m.repos[n] : n \in DOMAIN m.repos}
_doesRepoExist(m, name) == getRepository(m, name) # None

Idle(obj) == \A s \in 1..Len(obj.scans) : obj.scans[s].pc \in {"done", "failed"}

\* Repository.scan up to its first await, on a Repository object.
StartScan(obj) ==
    [obj EXCEPT !.scans = Append(@, [pc |-> "readdir", pos |-> 0, pkg |-> 0]),
                !.walkQueue.onceEmptied = @ + 1,
                !.log = Append(@, [type |-> "scanning", err |-> "", pkg |-> 0, ctx |-> {}])]

\* PackageManager.scanRepository: scan() of the named Repository is called
\* and not awaited.  When the lookup yields an inherited member, which has
\* no scan method, the call throws a TypeError and the promise of
\* scanRepository is rejected.
scanRepository(m, name) ==
    IF _doesRepoExist(m, name) /\ getRepository(m, name) # Some(Inherited)
    THEN [m EXCEPT !.objs[m.repos[name]] = StartScan(m.objs[m.repos[name]])]
    ELSE m

\* The names a caller passes to scanRepository.
ScanNames == RepoNames \cup {ProtoName}

ScanRepository ==
    /\ \E name \in ScanNames :
          /\ name \in DOMAIN mgr.repos =>
                /\ Idle(mgr.objs[mgr.repos[name]])
                /\ Len(mgr.objs[mgr.repos[name]].scans) < MaxMgrScans
          /\ mgr' = [scanRepository(mgr, name) EXCEPT
                        !.last = [op |-> "scanRepository", name |-> name,
                                  threw |-> getRepository(mgr, name) = Some(Inherited)]]
    /\ UNCHANGED <<tree, errListeners, repo, walkQueue, heap, scans, log, clock, faults,
                   doneIds, qtrace>>

\* PackageManager.scanRepositories: scanRepository is called, and not
\* awaited, for the name of every Repository of getRepositories().
ScanRepositories_firstOnly ==
    /\ \A o \in getRepositories(mgr) :
          Idle(mgr.objs[o]) /\ Len(mgr.objs[o].scans) < MaxMgrScans
    /\ mgr' = [mgr EXCEPT
                  !.objs = [o \in DOMAIN mgr.objs |->
                               IF o \in getRepositories(mgr)
                                  /\ \A q \in getRepositories(mgr) : o <= q
                               THEN StartScan(mgr.objs[o]) ELSE mgr.objs[o]],
                  !.last = [op |-> "scanRepositories"]]
    /\ UNCHANGED <<tree, errListeners, repo, walkQueue, heap, scans, log, clock, faults,
                   doneIds, qtrace>>

ScanRepositories ==
    /\ \A o \in getRepositories(mgr) :
          Idle(mgr.objs[o]) /\ Len(mgr.objs[o].scans) < MaxMgrScans
    /\ mgr' = [mgr EXCEPT
                  !.objs = [o \in DOMAIN mgr.objs |->
                               IF o \in getRepositories(mgr)
                               THEN scanRepository(mgr, mgr.objs[o].name).objs[o]
                               ELSE mgr.objs[o]],
                  !.last = [op |-> "scanRepositories"]]
    /\ UNCHANGED <<tree, errListeners, repo, walkQueue, heap, scans, log, clock, faults,
                   doneIds, qtrace>>

\* The signal with which the PackageManager re-emits a Repository's signal,
\* and the context its listener adds: _onRepoError, _onRepoReady,
\* _onPackageAdded.
ManagerSignal(type) ==
    CASE type = "error" -> [type |-> "error", ctx |-> {}]
      [] type = "ready" -> [type |-> "repoReady", ctx |-> {"manager", "repository"}]
      [] type = "addedPackage" ->
            [type |-> "packageAdded", ctx |-> {"manager", "repository", "package"}]

\* The PackageManager's listeners run on the signals a Repository emitted.
RECURSIVE ReEmit(_, _, _)
ReEmit(o, entries, on) ==
    IF entries = <<>> THEN <<>>
    ELSE LET e == Head(entries)
             rest == ReEmit(o, Tail(entries), on)
         IN IF e.type \in on
            THEN <<[type |-> ManagerSignal(e.type).type, ctx |-> ManagerSignal(e.type).ctx,
                    repository |-> o, pkg |-> e.pkg]>> \o rest
            ELSE rest

\* The state of Repository object o, for the handlers of the Repository.
MgrSt_firstIndex(o) ==
    [repo |-> mgr.objs[1].repo, heap |-> mgr.objs[o].heap, log |-> mgr.objs[o].log,
     clock |-> mgr.objs[o].clock, threw |-> FALSE]

MgrSt(o) ==
    [repo |-> mgr.objs[o].repo, heap |-> mgr.objs[o].heap, log |-> mgr.objs[o].log,
     clock |-> mgr.objs[o].clock, threw |-> FALSE]

MgrCommit(o, st, wq, scs) ==
    /\ mgr' = [mgr EXCEPT
                  !.objs[o] = [mgr.objs[o] EXCEPT !.repo = st.repo, !.heap = st.heap,
                                                  !.log = st.log, !.walkQueue = wq,
                                                  !.scans = scs, !.clock = st.clock],
                  !.log = @ \o ReEmit(o, SubSeq(st.log, Len(mgr.objs[o].log) + 1, Len(st.log)),
                                      mgr.objs[o].on),
                  !.last = [op |-> "step"]]

\* _populateWalkQueue of Repository object o: the listing of its directory
\* returns, or the metadata file of one entry is pushed.
MgrPopulate(o) ==
    /\ LET obj == mgr.objs[o]
           s == Len(obj.scans)
           dir == mgr.dirs[obj.dir]
       IN /\ s > 0
          /\ obj.scans[s].pc \in {"readdir", "entry"}
          /\ LET i == obj.scans[s].pos
                 wq == IF obj.scans[s].pc = "entry" THEN push(obj.walkQueue, i)
                       ELSE obj.walkQueue
                 nxt == IF obj.scans[s].pc = "readdir" THEN dir.lo ELSE i + 1
             IN MgrCommit(o, MgrSt(o), wq,
                          [obj.scans EXCEPT ![s].pc = IF nxt <= dir.hi THEN "entry"
                                                      ELSE "process",
                                            ![s].pos = nxt])
    /\ UNCHANGED <<tree, errListeners, repo, walkQueue, heap, scans, log, clock, faults,
                   doneIds, qtrace>>

\* _processWalkQueue of Repository object o at the head of its loop.
MgrProcess(o) ==
    /\ LET obj == mgr.objs[o]
           s == Len(obj.scans)
       IN /\ s > 0
          /\ obj.scans[s].pc = "process"
          /\ IF length(obj.walkQueue) = 0
             THEN MgrCommit(o, MgrSt(o), obj.walkQueue, [obj.scans EXCEPT ![s].pc = "done"])
             ELSE LET n == next(obj.walkQueue)
                      st1 == IF n.emptied
                             THEN RunEmptied(MgrSt(o), obj.walkQueue.onceEmptied)
                             ELSE MgrSt(o)
                      st2 == _walkPkgDir(st1, n.item)
                  IN MgrCommit(o, st2, n.wq,
                               [obj.scans EXCEPT ![s].pc = "walk", ![s].pkg = Len(st2.heap)])
    /\ UNCHANGED <<tree, errListeners, repo, walkQueue, heap, scans, log, clock, faults,
                   doneIds, qtrace>>

\* The walk of the Package that Repository object o dequeued last settles.
MgrWalkDone(o) ==
    /\ LET obj == mgr.objs[o]
           s == Len(obj.scans)
       IN /\ s > 0
          /\ obj.scans[s].pc = "walk"
          /\ LET st == Package_walk(MgrSt(o), obj.scans[s].pkg, configParseRules, "ok")
             IN MgrCommit(o, st, obj.walkQueue,
                          [obj.scans EXCEPT ![s].pc = IF st.threw THEN "failed"
                                                      ELSE "process"])
    /\ UNCHANGED <<tree, errListeners, repo, walkQueue, heap, scans, log, clock, faults,
                   doneIds, qtrace>>

\* Repository.getPackage.
getPackage(obj, guid) == Lookup(obj.repo.packages, guid)

\* The identifiers a caller asks for.
LookupIds == {<<"1">>, <<"3">>, ProtoKey}

\* PackageManager.getRepositoryPackage, called while no scan is in
\* progress: the result is recorded; an unregistered name makes
\* getRepository return undefined and the call fail with a TypeError.
GetRepositoryPackage ==
    /\ \A o \in 1..Len(mgr.objs) : Idle(mgr.objs[o])
    /\ \E guid \in LookupIds, name \in RepoNames :
          mgr' = [mgr EXCEPT
                     !.last = [op |-> "getRepositoryPackage", name |-> name, guid |-> guid,
                               threw |-> ~_doesRepoExist(mgr, name),
                               result |-> IF _doesRepoExist(mgr, name)
                                          THEN getPackage(mgr.objs[mgr.repos[name]], guid)
                                          ELSE None]]
    /\ UNCHANGED <<tree, errListeners, repo, walkQueue, heap, scans, log, clock, faults,
                   doneIds, qtrace>>

\* PackageManager._zipPackage on the shared archiver: glob() appends the
\* files of the directory and returns the archiver itself, finalize()
\* prevents further appending.  On an archiver that is already finalized
\* the append does not happen: the call either throws or is ignored.
_zipPackage(z, dir, late) ==
    IF ~z.finalized
    THEN [zipper |-> [z EXCEPT !.globs = Append(@, dir), !.finalized = TRUE, !.calls = @ + 1],
          threw |-> FALSE]
    ELSE [zipper |-> [z EXCEPT !.calls = @ + 1], threw |-> late = "throws"]

\* PackageManager.getRepositoryPackageContents, called while no scan is in
\* progress.  An unregistered name, an identifier with no Package and an
\* inherited member (which has no path) make the call fail with a
\* TypeError before the archiver is touched.  The stream returned is the
\* archiver itself.
GetRepositoryPackageContents ==
    /\ \A o \in 1..Len(mgr.objs) : Idle(mgr.objs[o])
    /\ mgr.zipper.calls < MaxExports
    /\ \E guid \in LookupIds, name \in RepoNames, late \in {"throws", "ignored"} :
          LET found == IF _doesRepoExist(mgr, name)
                       THEN getPackage(mgr.objs[mgr.repos[name]], guid)
                       ELSE None
              isPkg == found # None /\ found # Some(Inherited)
              dir == mgr.objs[mgr.repos[name]].heap[found[1]].path
              z == IF isPkg THEN _zipPackage(mgr.zipper, dir, late)
                   ELSE [zipper |-> [mgr.zipper EXCEPT !.calls = @ + 1], threw |-> TRUE]
          IN mgr' = [mgr EXCEPT
                        !.zipper = z.zipper,
                        !.last = [op |-> "getRepositoryPackageContents", name |-> name,
                                  guid |-> guid, threw |-> z.threw,
                                  pkg |-> IF isPkg THEN Some(dir) ELSE None]]
    /\ UNCHANGED <<tree, errListeners, repo, walkQueue, heap, scans, log, clock, faults,
                   doneIds, qtrace>>

NextMgr ==
    \/ AddRepository
    \/ GetRepositoryPackageContents
    \/ ScanRepository
    \/ ScanRepositories
    \/ \E o \in 1..Len(mgr.objs) : MgrPopulate(o)
    \/ \E o \in 1..Len(mgr.objs) : MgrProcess(o)
    \/ \E o \in 1..Len(mgr.objs) : MgrWalkDone(o)
    \/ GetRepositoryPackage

SpecMgr == InitMgr /\ [][NextMgr]_vars

----------------------------------------------------------------------------
\* Vocabulary of the properties.
ReadyCount == Cardinality({i \in 1..Len(log) : log[i].type = "ready"})

InInvalid(p) == \E i \in 1..Len(repo.invalidPackages) : repo.invalidPackages[i] = p

Indexed(p) == \E k \in DOMAIN repo.packages : repo.packages[k] = p

ErrorSignaled(err, p, ctx) ==
    \E i \in 1..Len(log) :
        /\ log[i].type = "error"
        /\ log[i].err = err
        /\ log[i].pkg = p
        /\ ctx \subseteq log[i].ctx

\* The metadata yields no value for a property: no match, or a blank capture.
NoValue(capture) == capture = None \/ Trim(capture[1]) = <<>>

Settled == \A s \in 1..Len(scans) : ~Active(s)

\* C1: every Package stored in the index has a non-empty name and a non-empty
\* identifier, and a Package whose walk ended in the missing-requirement
\* condition is never in the index.
C1_IndexedPackagesValid ==
    \A k \in DOMAIN repo.packages :
        LET p == heap[repo.packages[k]]
        IN /\ p.name # None /\ p.name[1] # <<>>
           /\ p.guid # None /\ p.guid[1] # <<>>
           /\ p.outcome # "missing"

\* Two scans have settled, the index holds a Package, and a candidate without
\* a name or with a blank identifier has been walked and kept out.
C1_Witness ==
    /\ Len(scans) >= 2 /\ Settled
    /\ DOMAIN repo.packages # {}
    /\ \E p \in 1..Len(heap) :
          /\ heap[p].outcome = "missing" /\ ~Indexed(p)
          /\ heap[p].name = None \/ heap[p].guid = Some(<<>>)

\* C2: no two indexed Packages share an identifier; a Package that signaled
\* "created" is either the indexed entry of its identifier or it is in
\* invalidPackages, a duplicate-identifier error was signaled for it, and the
\* indexed entry is the Package of that identifier that was created first.
C2_FirstDiscoveredWins ==
    /\ \A k1, k2 \in DOMAIN repo.packages :
          heap[repo.packages[k1]].guid = heap[repo.packages[k2]].guid => k1 = k2
    /\ \A p \in 1..Len(heap) :
          heap[p].outcome = "created" =>
             LET g == heap[p].guid[1]
                 sameId == {q \in 1..Len(heap) :
                               heap[q].outcome = "created" /\ heap[q].guid = heap[p].guid}
             IN /\ g \in DOMAIN repo.packages
                /\ \A q \in sameId : repo.packages[g] <= q
                /\ repo.packages[g] # p =>
                      /\ InInvalid(p)
                      /\ ~Indexed(p)
                      /\ ErrorSignaled("RepositoryNotUniquePackageError", p, {"package"})

\* Two different candidate directories declared the same identifier: the
\* first is indexed, the second is in invalidPackages.
C2_Witness ==
    \E p \in 1..Len(heap) :
        /\ heap[p].outcome = "created"
        /\ heap[p].guid[1] \in DOMAIN repo.packages
        /\ repo.packages[heap[p].guid[1]] # p
        /\ heap[repo.packages[heap[p].guid[1]]].path # heap[p].path
        /\ InInvalid(p)

\* C3: "ready" is signaled at most once however many scans run, and a later
\* scan that drains the queue still records lastscan: after it, lastscan is
\* later than the walks of all Packages built before that scan's last one.
C3_ReadyAtMostOnce ==
    /\ ReadyCount <= 1
    /\ ReadyCount = 1 <=> repo.hasCompletedScan
    /\ \A s \in 1..Len(scans) :
          (scans[s].pc = "done" /\ scans[s].pkg # 0) =>
             /\ repo.lastscan # 0
             /\ \A q \in 1..(scans[s].pkg - 1) : heap[q].lastWalk < repo.lastscan

\* A second scan has drained its queue after the first one did: lastscan was
\* recorded again and "ready" is in the log once.
C3_Witness ==
    /\ ReadyCount = 1
    /\ \E s \in 2..Len(scans) :
          /\ scans[s].pc = "done" /\ scans[s].pkg # 0
          /\ scans[1].pc = "done" /\ scans[1].pkg # 0
          /\ heap[scans[1].pkg].lastWalk # 0
          /\ heap[scans[1].pkg].lastWalk < repo.lastscan

\* C4: when every earlier scan completed and no filesystem operation failed,
\* no Package is recorded in invalidPackages as a duplicate of the Package
\* indexed for the very same candidate directory (a re-scan of an unchanged
\* tree raises no collision).
C4_RescanRaisesNoCollision ==
    (faults = 0 /\ \A s \in 1..(Len(scans) - 1) : scans[s].pc = "done") =>
       \A i \in 1..Len(repo.invalidPackages) :
           LET p == heap[repo.invalidPackages[i]]
           IN (isValid(p) /\ p.guid[1] \in DOMAIN repo.packages) =>
                 heap[repo.packages[p.guid[1]]].path # p.path

AllValidDistinct ==
    /\ \A i \in 1..Len(tree) : ~NoValue(tree[i].name) /\ ~NoValue(tree[i].guid)
    /\ \A i, j \in 1..Len(tree) :
          Trim(tree[i].guid[1]) = Trim(tree[j].guid[1]) => i = j

\* C6: after one completed scan, without filesystem failure, of a tree whose
\* candidates are all valid with pairwise distinct identifiers, the index
\* has exactly one entry per candidate under its identifier with its name,
\* invalidPackages is empty and "ready" was signaled exactly once.
C6_OneScanIndexesAll ==
    (Len(scans) = 1 /\ scans[1].pc = "done" /\ faults = 0 /\ AllValidDistinct) =>
       /\ DOMAIN repo.packages = {Trim(tree[i].guid[1]) : i \in 1..Len(tree)}
       /\ \A i \in 1..Len(tree) :
             LET p == heap[repo.packages[Trim(tree[i].guid[1])]]
             IN p.path = i /\ p.name = Some(Trim(tree[i].name[1]))
       /\ repo.invalidPackages = <<>>
       /\ ReadyCount = 1

\* C7: a scan that has completed with every filesystem operation successful
\* has recorded lastscan, and "ready" has been signaled.
C7_CompletedScanIsReady ==
    \A s \in 1..Len(scans) :
        (scans[s].pc = "done" /\ faults = 0) => (repo.lastscan # 0 /\ ReadyCount = 1)

\* C8: in the step that signals "ready" or records lastscan, draining is
\* over: the queue is empty, no walk is in progress and every Package built
\* so far has reached the end of its walk.
C8_ReadyMeansDrained ==
    [][(ReadyCount' # ReadyCount \/ repo'.lastscan # repo.lastscan) =>
          /\ walkQueue'.queue = <<>>
          /\ \A s \in 1..Len(scans') : scans'[s].pc # "walk"
          /\ \A p \in 1..Len(heap') : heap'[p].outcome # "pending"]_vars

\* C9: a Package whose walk reached its end on metadata without a name or
\* without an identifier is not in the index, is in invalidPackages, and an
\* error carrying the missing-requirement error with the Package and the
\* Repository as context was signaled.
C9_MissingRequirementRecorded ==
    \A p \in 1..Len(heap) :
        ( /\ heap[p].outcome \notin {"pending", "rejected"}
          /\ NoValue(tree[heap[p].path].name) \/ NoValue(tree[heap[p].path].guid) ) =>
           /\ ~Indexed(p)
           /\ InInvalid(p)
           /\ ErrorSignaled("PackageMissingRequirementError", p, {"package", "repository"})

\* A candidate whose metadata has no name was walked to its end.
C9_Witness ==
    \E p \in 1..Len(heap) :
        /\ heap[p].outcome = "missing"
        /\ tree[heap[p].path].name = None
        /\ InInvalid(p)

\* C10: with an "error" listener registered, a filesystem failure rejects no
\* scan, and once the scans have settled no candidate is left in the queue.
C10_FsFailureNotFatal ==
    errListeners > 0 =>
       /\ \A s \in 1..Len(scans) : scans[s].pc # "failed"
       /\ (Settled => walkQueue.queue = <<>>)

\* The walks made so far: Package p's i-th call of walk.
Walks == {w \in (1..Len(heap)) \X (1..MaxWalks) : w[2] <= Len(heap[w[1]].hist)}

WalkRec(w) == heap[w[1]].hist[w[2]]

\* The walk reached one of its outcome signals.
ReachedOutcome(w) == WalkRec(w).end \in {"missing", "created", "updated"}

\* lastWalk and the has-walked flag as they were when walk w was called.
LastWalkBefore(w) == IF w[2] = 1 THEN 0 ELSE heap[w[1]].hist[w[2] - 1].lastWalk
HasWalkedBefore(w) == IF w[2] = 1 THEN FALSE ELSE heap[w[1]].hist[w[2] - 1].hasWalked

Signal(sig, p) == [sig |-> sig, package |-> p]

\* C11: a walk that met a read error of the metadata file or an I/O error of
\* the listing still ends with one of its outcomes (missing-requirement,
\* created or updated).
C11_WalkSurvivesReadAndListErrors ==
    \A w \in Walks : WalkRec(w).io \in {"read", "list"} => ReachedOutcome(w)

\* C12: a walk that found its metadata file absent (the stat of the path
\* fails) is not rejected and ends by signaling the missing-requirement
\* condition for its Package.
C12_AbsentMetadataEndsMissing ==
    \A w \in Walks :
        WalkRec(w).io = "stat" =>
           /\ WalkRec(w).end = "missing"
           /\ Signal("error", w[1]) \in {WalkRec(w).signals[k] : k \in 1..Len(WalkRec(w).signals)}

\* C13: with no "error" listener on the Repository, and no walk stopped by a
\* failed stat or read, no scan is rejected, and once the scans have settled
\* every candidate has been taken from the queue.
C13_ErrorsCanBeIgnored ==
    (errListeners = 0 /\ \A w \in Walks : WalkRec(w).io \notin {"stat", "read"}) =>
       /\ \A s \in 1..Len(scans) : scans[s].pc # "failed"
       /\ (Settled => walkQueue.queue = <<>>)

\* C14: with an "error" listener registered, a traversal failure is signaled
\* as an error of the Repository, and once a scan whose root listing
\* succeeded has finished populating the queue, it has pushed the metadata
\* file of every entry other than those at which the traversal failed.
C14_TraversalErrorIsLocal ==
    errListeners > 0 =>
       \A s \in 1..Len(scans) :
           /\ scans[s].travAt # {} => ErrorSignaled("TraversalError", 0, {"repository"})
           /\ (scans[s].pc \notin {"readdir", "entry"} /\ 0 \notin scans[s].travAt) =>
                 \A i \in 1..Len(tree) : i \notin scans[s].travAt => i \in scans[s].pushed

\* Every file under a listing, at any depth, as a path relative to the top.
RECURSIVE AllFiles(_, _)
AllFiles(listing, prefix) ==
    UNION { IF listing[i].sub = None
            THEN {Append(prefix, listing[i].name)}
            ELSE AllFiles(listing[i].sub[1], Append(prefix, listing[i].name))
            : i \in 1..Len(listing) }

\* C15: after a walk with no I/O error that reached its outcome, items has
\* exactly one entry for every file under the package directory, at any
\* depth, as its path relative to the package directory.
C15_ItemsListEveryFile ==
    \A w \in Walks :
        (w[2] = Len(heap[w[1]].hist) /\ WalkRec(w).io = "ok" /\ ReachedOutcome(w)) =>
           LET p == heap[w[1]]
               files == AllFiles(tree[p.path].files, <<>>)
           IN /\ {p.items[k] : k \in 1..Len(p.items)} = files
              /\ Len(p.items) = Cardinality(files)

\* The walks of Package p that ended with the Package valid.
ValidWalks(p) ==
    {i \in 1..Len(heap[p].hist) : heap[p].hist[i].end \in {"created", "updated"}}

\* C16: over the walks of one Package, "created" is signaled on the first
\* walk that ends valid and on no other, "updated" on every later walk that
\* ends valid and on no other, and each walk that ends valid records a new
\* lastWalk.
C16_CreatedOnceThenUpdated ==
    \A p \in 1..Len(heap) :
        \A i \in 1..Len(heap[p].hist) :
            LET h == heap[p].hist[i]
                first == i \in ValidWalks(p) /\ \A j \in ValidWalks(p) : i <= j
                later == i \in ValidWalks(p) /\ ~first
                sigs == {h.signals[k] : k \in 1..Len(h.signals)}
            IN /\ Signal("created", p) \in sigs <=> first
               /\ Signal("updated", p) \in sigs <=> later
               /\ i \in ValidWalks(p) =>
                     /\ h.lastWalk # 0
                     /\ h.lastWalk > LastWalkBefore(<<p, i>>)

\* C17: a walk that ends with the Package invalid signals exactly one
\* missing-requirement error carrying the Package and nothing else, and
\* leaves lastWalk and the has-walked flag as they were; lastWalk is absent
\* as long as no walk has ended valid.
C17_InvalidWalkLeavesNoTrace ==
    \A w \in Walks :
        /\ WalkRec(w).end = "missing" =>
              /\ WalkRec(w).signals = <<Signal("error", w[1])>>
              /\ WalkRec(w).lastWalk = LastWalkBefore(w)
              /\ WalkRec(w).hasWalked = HasWalkedBefore(w)
        /\ (\A j \in 1..w[2] : j \notin ValidWalks(w[1])) => WalkRec(w).lastWalk = 0

\* A Package was walked to the missing-requirement outcome and then, with a
\* full rule mapping, to "created": lastWalk was absent after the first walk
\* and is recorded after the second.
C17_Witness ==
    \E w \in Walks :
        /\ w[2] >= 2
        /\ heap[w[1]].hist[w[2] - 1].end = "missing"
        /\ heap[w[1]].hist[w[2] - 1].lastWalk = 0
        /\ WalkRec(w).end = "created"
        /\ WalkRec(w).lastWalk # 0

\* The rule mapping contains a nested rule group.
HasGroup(rules) == \E i \in 1..Len(rules) : rules[i].kind = "group"

\* C18: a walk under a rule mapping with a nested rule group that meets no
\* filesystem failure proceeds to its listing and ends with one of its
\* outcome signals.
C18_NestedGroupWalkReachesOutcome ==
    \A w \in Walks :
        (HasGroup(WalkRec(w).rules) /\ WalkRec(w).io = "ok") => ReachedOutcome(w)

\* The items pushed, and the items returned by the calls of next() that
\* found the queue non-empty, in call order.
IsPush(e) == e.op = "push"
IsTake(e) == e.op = "next" /\ e.before > 0
ItemsOf(t) == [i \in 1..Len(t) |-> t[i].item]
Pushed == ItemsOf(SelectSeq(qtrace, IsPush))
Returned == ItemsOf(SelectSeq(qtrace, IsTake))

\* C19: under any interleaving of push and next, the items returned are the
\* pushed items in push order, each once; a next() on an empty queue
\* returns the empty value; length is the number of items pushed and not
\* yet returned.
C19_QueueIsFifo ==
    /\ Len(Returned) <= Len(Pushed)
    /\ Returned = SubSeq(Pushed, 1, Len(Returned))
    /\ \A i \in 1..Len(qtrace) :
          (qtrace[i].op = "next" /\ qtrace[i].before = 0) => qtrace[i].item = 0
    /\ length(walkQueue) = Len(Pushed) - Len(Returned)
    /\ walkQueue.queue = SubSeq(Pushed, Len(Returned) + 1, Len(Pushed))

\* Two different items were pushed and returned in push order, with a push
\* made between the two calls of next, and an item is still queued.
C19_Witness ==
    /\ Len(Returned) >= 2
    /\ Returned[1] # Returned[2]
    /\ length(walkQueue) > 0
    /\ \E i, j, k \in 1..Len(qtrace) :
          /\ i < j /\ j < k
          /\ IsTake(qtrace[i]) /\ IsPush(qtrace[j]) /\ IsTake(qtrace[k])

\* C20: a call of next() signals "emptied" exactly when it removes the last
\* remaining item; a call on an already-empty queue does not signal it.
C20_EmptiedOnlyOnLastRemoval ==
    \A i \in 1..Len(qtrace) :
        qtrace[i].op = "next" => (qtrace[i].emptied <=> qtrace[i].before = 1)

\* C21: under sequential scans at most one walk is in flight: only the
\* Package built last can be unsettled, and then a scan is suspended in its
\* walk; when the next candidate is dequeued every earlier Package has
\* settled and its created or error handler has run.
C21_OneWalkInFlight ==
    \A p \in 1..Len(heap) :
        /\ heap[p].outcome = "pending" =>
              /\ p = Len(heap)
              /\ \E s \in 1..Len(scans) : scans[s].pc = "walk" /\ scans[s].pkg = p
        /\ p < Len(heap) =>
              /\ heap[p].hist # <<>>
              /\ heap[p].outcome = "created" => (Indexed(p) \/ InInvalid(p))
              /\ heap[p].outcome = "missing" => InInvalid(p)

\* The second candidate of a scan is being walked after the first was indexed.
C21_Witness ==
    /\ Len(heap) >= 2
    /\ heap[Len(heap)].outcome = "pending"
    /\ heap[1].outcome = "created" /\ Indexed(1)
    /\ Len(scans) = 1

ScanningCount == Cardinality({i \in 1..Len(log) : log[i].type = "scanning"})

\* C22: every scan has signaled "scanning"; while a scan populates the
\* queue its "emptied" listener is registered and it has dequeued nothing;
\* a scan that has dequeued an item has finished populating, and when its
\* traversal met no failure it has pushed every candidate of the tree.
C22_PopulateBeforeDrain ==
    /\ ScanningCount = Len(scans)
    /\ \A s \in 1..Len(scans) :
          /\ scans[s].pc \in {"readdir", "entry"} =>
                /\ scans[s].pkg = 0
                /\ walkQueue.onceEmptied >= 1
          /\ scans[s].pc = "entry" => scans[s].pushed = 1..(scans[s].pos - 1) \ scans[s].travAt
          /\ (scans[s].pkg # 0 /\ scans[s].travAt = {}) =>
                scans[s].pushed = 1..Len(tree)

\* A scan of a tree with two candidates is walking its first Package after
\* pushing both candidates.
C22_Witness ==
    \E s \in 1..Len(scans) :
        /\ scans[s].pc = "walk"
        /\ Len(tree) = 2 /\ scans[s].pushed = {1, 2}
        /\ Len(walkQueue.queue) = 1

\* The number of pushes made by all scans.
PushedCount == Cardinality({x \in (1..Len(scans)) \X (1..MaxCands) : x[2] \in scans[x[1]].pushed})

\* C27: the Repository has built one Package per dequeued candidate; each
\* of its Packages is walked once and has signaled nothing but "created" or
\* the missing-requirement error.
C27_FreshPackagePerCandidate ==
    /\ Len(heap) = PushedCount - Len(walkQueue.queue)
    /\ \A p \in 1..Len(heap) :
          heap[p].owned =>
             /\ Len(heap[p].hist) <= 1
             /\ heap[p].hist = <<>> <=> heap[p].outcome = "pending"
             /\ \A k \in 1..Len(heap[p].emitted) :
                   /\ heap[p].emitted[k].sig \in {"created", "error"}
                   /\ heap[p].emitted[k].package = p

\* Two scans have each built and walked a Package of their own for the same
\* candidate directory.
C27_Witness ==
    \E p, q \in 1..Len(heap) :
        /\ p < q /\ heap[p].path = heap[q].path
        /\ Len(heap[p].hist) = 1 /\ Len(heap[q].hist) = 1
        /\ heap[q].outcome = "created"

\* C28: every step leaves the entries of invalidPackages in place and only
\* appends to them, and the entries are in the order in which their
\* candidates were dequeued (the order in which the Packages were built).
C28_InvalidPackagesAppendOnly ==
    [][LET a == repo.invalidPackages
           b == repo'.invalidPackages
       IN /\ Len(a) <= Len(b)
          /\ SubSeq(b, 1, Len(a)) = a
          /\ \A i, j \in 1..Len(b) : i < j => b[i] < b[j]]_vars

\* invalidPackages holds the Packages that two scans built for one
\* candidate, the earlier scan's first.
C28_Witness ==
    \E i, j \in 1..Len(repo.invalidPackages) :
        /\ i < j
        /\ heap[repo.invalidPackages[i]].path = heap[repo.invalidPackages[j]].path
        /\ heap[repo.invalidPackages[i]].outcome = "missing"

\* C29: when scans of one Repository overlap, "ready" is still signaled at
\* most once, the index holds at most one Package per identifier, stored
\* under its own identifier, and every indexed Package is valid.
C29_OverlapKeepsSafety ==
    /\ ReadyCount <= 1
    /\ \A k1, k2 \in DOMAIN repo.packages :
          heap[repo.packages[k1]].guid = heap[repo.packages[k2]].guid => k1 = k2
    /\ \A k \in DOMAIN repo.packages :
          /\ heap[repo.packages[k]].guid = Some(k)
          /\ isValid(heap[repo.packages[k]])
          /\ heap[repo.packages[k]].outcome = "created"

\* Two scans were in progress together: both have walked a Package of the
\* same identifier, one is indexed, and the queue has emptied with both
\* listeners registered.
C29_Witness ==
    /\ Len(scans) >= 2
    /\ scans[1].pkg # 0 /\ scans[2].pkg # 0
    /\ scans[2].pkg < scans[1].pkg
    /\ heap[scans[1].pkg].guid = heap[scans[2].pkg].guid
    /\ heap[scans[1].pkg].outcome = "created"
    /\ heap[scans[2].pkg].outcome = "created"
    /\ ReadyCount = 1

\* ---- The PackageManager (specification SpecMgr).
Occurrences(entries, type) ==
    Cardinality({i \in DOMAIN entries : entries[i].type = type})

ReEmitted(o, type) ==
    Cardinality({i \in DOMAIN mgr.log : mgr.log[i].type = type /\ mgr.log[i].repository = o})

\* C23: for every Repository built by addRepository, the PackageManager has
\* emitted one "packageAdded" for each "packageAdded" of the Repository, one
\* "repoReady" for each "ready" and one "error" for each "error".
C23_EverySignalReEmitted ==
    \A o \in 1..Len(mgr.objs) :
        /\ ReEmitted(o, "packageAdded") = Occurrences(mgr.objs[o].log, "packageAdded")
        /\ ReEmitted(o, "repoReady") = Occurrences(mgr.objs[o].log, "ready")
        /\ ReEmitted(o, "error") = Occurrences(mgr.objs[o].log, "error")

\* C24: a call of scanRepositories starts exactly one scan on every
\* registered Repository, each still at its first filesystem operation when
\* the call returns, and touches no other Repository object.
C24_ScanRepositoriesStartsEveryScan ==
    [][(mgr'.last.op = "scanRepositories" /\ mgr' # mgr) =>
          \A o \in DOMAIN mgr.objs :
              IF o \in getRepositories(mgr)
              THEN /\ Len(mgr'.objs[o].scans) = Len(mgr.objs[o].scans) + 1
                   /\ mgr'.objs[o].scans[Len(mgr'.objs[o].scans)].pc = "readdir"
                   /\ SubSeq(mgr'.objs[o].scans, 1, Len(mgr.objs[o].scans)) = mgr.objs[o].scans
                   /\ mgr'.objs[o].repo = mgr.objs[o].repo
                   /\ mgr'.objs[o].walkQueue.queue = mgr.objs[o].walkQueue.queue
              ELSE mgr'.objs[o] = mgr.objs[o]]_vars

C24_Witness ==
    /\ mgr.last.op = "scanRepositories"
    /\ Cardinality(getRepositories(mgr)) = 2
    /\ \A o \in getRepositories(mgr) : mgr.objs[o].scans = <<[pc |-> "readdir", pos |-> 0, pkg |-> 0]>>

\* C25: a lookup by identifier returns the Package indexed under the
\* identifier, and the absent value for an identifier that was never
\* indexed.
C25_LookupReturnsIndexedOrAbsent ==
    (mgr.last.op = "getRepositoryPackage" /\ ~mgr.last.threw) =>
        LET packages == mgr.objs[mgr.repos[mgr.last.name]].repo.packages
        IN mgr.last.result = IF mgr.last.guid \in DOMAIN packages
                             THEN Some(packages[mgr.last.guid])
                             ELSE None

\* The scan of one repository directory by a Repository of its own, with
\* nothing else running: every entry is pushed, then each is dequeued and
\* its Package walked.
RECURSIVE AloneFrom(_, _, _)
AloneFrom(st, i, hi) ==
    IF i > hi THEN st
    ELSE LET st1 == IF i = hi THEN RunEmptied(st, 1) ELSE st
             st2 == _walkPkgDir(st1, i)
             st3 == Package_walk(st2, Len(st2.heap), configParseRules, "ok")
         IN IF st3.threw THEN st3 ELSE AloneFrom(st3, i + 1, hi)

Alone(dir) ==
    AloneFrom([repo |-> NoRepository, heap |-> <<>>, log |-> <<>>, clock |-> 0,
               threw |-> FALSE], mgr.dirs[dir].lo, mgr.dirs[dir].hi)

ScannedOnce(o) == Len(mgr.objs[o].scans) = 1 /\ Idle(mgr.objs[o])

\* C30: whatever the interleaving with the scans of other Repositories, a
\* Repository whose scan has settled holds the index and the invalidPackages
\* that a scan of its directory alone produces, and its Packages and queue
\* hold paths of its own directory only.
C30_ScansOfRepositoriesIndependent ==
    \A o \in 1..Len(mgr.objs) :
        LET obj == mgr.objs[o]
            dir == mgr.dirs[obj.dir]
        IN /\ \A p \in 1..Len(obj.heap) : obj.heap[p].path \in dir.lo..dir.hi
           /\ \A q \in 1..Len(obj.walkQueue.queue) : obj.walkQueue.queue[q] \in dir.lo..dir.hi
           /\ ScannedOnce(o) =>
                 /\ obj.repo.packages = Alone(obj.dir).repo.packages
                 /\ obj.repo.invalidPackages = Alone(obj.dir).repo.invalidPackages
                 /\ [p \in 1..Len(obj.heap) |-> obj.heap[p].path]
                       = [p \in 1..Len(Alone(obj.dir).heap) |-> Alone(obj.dir).heap[p].path]

C30_Witness ==
    \E o1, o2 \in 1..Len(mgr.objs) :
        /\ o1 # o2
        /\ ScannedOnce(o1) /\ ScannedOnce(o2)
        /\ DOMAIN mgr.objs[o2].repo.packages # {}
        /\ \E i, j, k \in DOMAIN mgr.log :
              /\ i < j /\ j < k
              /\ mgr.log[i].repository = o1
              /\ mgr.log[j].repository = o2
              /\ mgr.log[k].repository = o1

\* ---- The index over re-scans of a changing tree (specification SpecRescan).
\* C31: no step removes an entry of the index or stores another Package
\* under an identifier that already has one.
C31_IndexMonotone ==
    [][\A k \in DOMAIN repo.packages :
           /\ k \in DOMAIN repo'.packages
           /\ repo'.packages[k] = repo.packages[k]
           /\ heap'[repo.packages[k]].guid = heap[repo.packages[k]].guid
           /\ heap'[repo.packages[k]].name = heap[repo.packages[k]].name]_vars

\* A re-scan ran to its end after the candidate indexed under "2" had
\* disappeared and the one indexed under "1" had had its name rewritten.
C31_Witness ==
    /\ Len(scans) = 2
    /\ scans[2].pc = "done"
    /\ DOMAIN repo.packages = {<<"1">>, <<"2">>}
    /\ Len(tree) = 1
    /\ tree[1].name = Some(<<"C">>)
    /\ heap[repo.packages[<<"1">>]].name = Some(<<"A">>)
    /\ Len(heap) = 3

\* ---- Classification of the candidates (specification Spec).
InvalidEntries(p) ==
    Cardinality({i \in 1..Len(repo.invalidPackages) : repo.invalidPackages[i] = p})

\* C32: a Package whose walk has completed is an entry of the index or
\* exactly one entry of invalidPackages, never both and never neither; and
\* once the scans have settled without a filesystem failure, the index and
\* invalidPackages together hold as many entries as paths were enqueued.
C32_ClassifiedExactlyOnce ==
    /\ \A p \in 1..Len(heap) :
          (heap[p].hist # <<>> /\ ~heap[p].hist[Len(heap[p].hist)].rejected) =>
             \/ Indexed(p) /\ InvalidEntries(p) = 0
             \/ ~Indexed(p) /\ InvalidEntries(p) = 1
    /\ (Settled /\ faults = 0) =>
          Cardinality(DOMAIN repo.packages) + Len(repo.invalidPackages) = PushedCount

\* C33: when every scan() call has settled, by completing or by failing,
\* the queue is empty.
C33_QueueEmptyBetweenScans ==
    Settled => walkQueue.queue = <<>>

\* ---- The registry of the PackageManager (specification SpecMgr).
\* Under every name that was added, the registry holds the Repository added
\* last under that name, and getRepositories() holds one Repository per
\* distinct name.
LatestPerName ==
    /\ DOMAIN mgr.repos = {mgr.objs[o].name : o \in 1..Len(mgr.objs)}
    /\ \A n \in DOMAIN mgr.repos :
          /\ mgr.objs[mgr.repos[n]].name = n
          /\ \A o \in 1..Len(mgr.objs) : mgr.objs[o].name = n => o <= mgr.repos[n]
    /\ Cardinality(getRepositories(mgr)) = Cardinality(DOMAIN mgr.repos)

\* C34: the registry holds the latest Repository of each name, and every
\* signal the PackageManager re-emits in a step comes from a Repository that
\* is registered, not from one that has been replaced.
C34_OneRepositoryPerName ==
    [][/\ LatestPerName'
       /\ \A i \in (Len(mgr.log) + 1)..Len(mgr'.log) :
             mgr'.log[i].repository \in getRepositories(mgr)]_vars

\* C35: a call of scanRepository with a name that is not registered starts
\* no scan, signals nothing, raises no error and changes no Repository.
C35_ScanOfUnknownNameDoesNothing ==
    [][(mgr'.last.op = "scanRepository" /\ mgr'.last.name \notin DOMAIN mgr.repos) =>
          /\ mgr'.objs = mgr.objs
          /\ mgr'.log = mgr.log
          /\ mgr'.repos = mgr.repos
          /\ ~mgr'.last.threw]_vars

\* C36: every export of a package that exists succeeds, and the stream it
\* returns archives the directory of that package and of no other.
C36_EachExportArchivesItsOwnPackage ==
    (mgr.last.op = "getRepositoryPackageContents" /\ mgr.last.pkg # None) =>
        /\ ~mgr.last.threw
        /\ mgr.zipper.globs = <<mgr.last.pkg[1]>>

\* ---- The keys of the index (specification SpecRescan).
\* C37: every entry of the index is stored under the identifier of its
\* Package.
C37_KeyIsIdentifier ==
    \A k \in DOMAIN repo.packages : heap[repo.packages[k]].guid = Some(k)

\* A Package is indexed whose metadata file pads the identifier with blanks:
\* its key is the trimmed identifier, not the text captured.
C37_Witness ==
    \E k \in DOMAIN repo.packages :
        /\ heap[repo.packages[k]].guid = Some(k)
        /\ heap[repo.packages[k]].rawConfigContents[1].guid # Some(k)

====
